---- MODULE Spec2Model ----
(***************************************************************************)
(* Model of the slot-gated Google Form status checker:                     *)
(*   backend/main.py       TIME_SLOTS, is_within_time_slot,                *)
(*                         check_form_for_slot                             *)
(*   backend/form_check.py check_form_status                               *)
(*   backend/app.py        check_stats, api_check_slot, get_status         *)
(*                                                                         *)
(* Strings are sequences of fragments (the pieces of an f-string), page    *)
(* text is a sequence of words and "x in page_text" is a search for a      *)
(* contiguous sub-sequence.  A wall-clock instant is a record              *)
(* [day, sec, us] in UTC: day of week (Monday = 0), second of the day and  *)
(* microsecond of the second.                                              *)
(***************************************************************************)
EXTENDS Integers, Sequences, FiniteSets, TLC

(***************************************************************************)
(* Bounds of the model.                                                    *)
(***************************************************************************)
\* seconds sampled on each side of every slot boundary
Margin == 1
\* longest page text, in words
MaxPageLen == 3
\* concurrent API callers
NumCallers == 2
\* cap on the per-slot 'checks' counter of check_stats
MaxChecks == 1

(***************************************************************************)
(* Python values.                                                          *)
(***************************************************************************)
None == "None"
True == "True"
False == "False"
\* a local variable that holds no dictionary or datetime yet
Unset == <<>>
\* a local variable that holds no integer yet
NoInt == 0 - 1

DaySecs == 24 * 3600
WeekDays == 7
\* IST = timezone(timedelta(hours=5, minutes=30))
IST == 5 * 3600 + 30 * 60

\* datetime.time(h, m)
time(h, m) == [sec |-> h * 3600 + m * 60, us |-> 0]

\* a <= b on datetime.time values (hour, minute, second, microsecond order)
TimeLE(a, b) == a.sec < b.sec \/ (a.sec = b.sec /\ a.us <= b.us)

TIME_SLOTS ==
  [ tue_930  |-> [label |-> "9:30 - 11:10 AM", day |-> "Tuesday",
                  day_number |-> 1, start |-> time(9, 25), end |-> time(11, 15)],
    fri_1110 |-> [label |-> "11:10 AM - 12:50 PM", day |-> "Friday",
                  day_number |-> 4, start |-> time(11, 5), end |-> time(12, 55)],
    tue_140  |-> [label |-> "1:40 - 3:20 PM", day |-> "Tuesday",
                  day_number |-> 1, start |-> time(13, 35), end |-> time(15, 25)],
    tue_1110 |-> [label |-> "11:10 AM - 12:50 PM", day |-> "Tuesday",
                  day_number |-> 1, start |-> time(11, 5), end |-> time(12, 55)] ]

SlotIds == DOMAIN TIME_SLOTS

FORM_URL == "https://forms.gle/dK7QEXzTw8ZoGKsV6"
FORM_TITLE == <<"APTITUDE CLASS ATTENDANCE 2027 BATCH">>
CLOSED_MESSAGE == <<"is no longer", "accepting responses">>

(***************************************************************************)
(* The wall clock.  The instants the clock visits, as a clock in the IST   *)
(* offset shows them: on a slot's own day its two boundaries, Margin       *)
(* seconds around each and one microsecond after each; on every day of     *)
(* the week the start of every slot's window and the two ends of the day.  *)
(* The clock visits them in increasing order, week after week.             *)
(***************************************************************************)
BoundaryInstants(slot) ==
  LET bs == {slot.start.sec, slot.end.sec}
  IN  {[day |-> slot.day_number, sec |-> b + k, us |-> 0] :
          b \in bs, k \in (0 - Margin)..Margin}
        \cup {[day |-> slot.day_number, sec |-> b, us |-> 1] : b \in bs}

LocalInstants ==
  UNION {BoundaryInstants(TIME_SLOTS[s]) : s \in SlotIds}
    \cup {[day |-> d, sec |-> TIME_SLOTS[s].start.sec, us |-> 0] :
            d \in 0..(WeekDays - 1), s \in SlotIds}
    \cup {[day |-> d, sec |-> 0, us |-> 0] : d \in 0..(WeekDays - 1)}
    \cup {[day |-> d, sec |-> DaySecs - 1, us |-> 999999] : d \in 0..(WeekDays - 1)}

\* a is not later than b in the week
InstantLE(a, b) ==
  \/ a.day < b.day
  \/ a.day = b.day /\ TimeLE([sec |-> a.sec, us |-> a.us], [sec |-> b.sec, us |-> b.us])

RECURSIVE SortInstants(_)
SortInstants(S) ==
  IF S = {} THEN <<>>
  ELSE LET m == CHOOSE x \in S : \A y \in S : InstantLE(x, y)
       IN  <<m>> \o SortInstants(S \ {m})

LocalInstantSeq == SortInstants(LocalInstants)
NumInstants == Len(LocalInstantSeq)

\* the UTC instant at which a clock in the IST offset shows n
FromIST(n) ==
  LET s == n.sec - IST
  IN  IF s >= 0 THEN [day |-> n.day, sec |-> s, us |-> n.us]
      ELSE [day |-> (n.day + WeekDays - 1) % WeekDays, sec |-> s + DaySecs, us |-> n.us]

\* the i-th instant of the week, in UTC
Instant(i) == FromIST(LocalInstantSeq[i])

\* datetime.now(IST): the UTC instant u shown in the fixed +05:30 offset
datetime_now(u) ==
  LET s == u.sec + IST
  IN  [day |-> (u.day + s \div DaySecs) % WeekDays, sec |-> s % DaySecs, us |-> u.us]

\* now.weekday()
weekday(n) == n.day
\* now.time()
time_of(n) == [sec |-> n.sec, us |-> n.us]

(***************************************************************************)
(* is_within_time_slot: the returned dictionaries.                         *)
(***************************************************************************)
\* main.py 62-67: slot_id is not a key of TIME_SLOTS
unknown_slot_check(sid) ==
  [is_active |-> FALSE, slot_info |-> <<>>,
   message |-> <<"Unknown slot ID: ", sid>>]

wrong_day_message(slot) ==
  <<"Today is not ", slot.day, ". Slot '", slot.label, "' only active on ", slot.day, ".">>

wrong_time_message(slot) ==
  <<"Current time is outside slot window (", slot.label, ").">>

active_message(slot) ==
  <<"Slot '", slot.label, "' is currently active.">>

\* known_slot_check with the end of the window excluded
known_slot_check_exclusive(slot, day, t) ==
  IF day # slot.day_number
    THEN [is_active |-> FALSE, slot_info |-> <<slot>>, message |-> wrong_day_message(slot)]
    ELSE IF TimeLE(slot.start, t) /\ TimeLE(t, slot.end) /\ t # slot.end
      THEN [is_active |-> TRUE, slot_info |-> <<slot>>, message |-> active_message(slot)]
      ELSE [is_active |-> FALSE, slot_info |-> <<slot>>, message |-> wrong_time_message(slot)]

\* known_slot_check with one message for both kinds of mismatch
known_slot_check_one_reason(slot, day, t) ==
  IF day # slot.day_number
    THEN [is_active |-> FALSE, slot_info |-> <<slot>>, message |-> wrong_day_message(slot)]
    ELSE IF TimeLE(slot.start, t) /\ TimeLE(t, slot.end)
      THEN [is_active |-> TRUE, slot_info |-> <<slot>>, message |-> active_message(slot)]
      ELSE [is_active |-> FALSE, slot_info |-> <<slot>>, message |-> wrong_day_message(slot)]

\* main.py 74-94: the day test, then the window test, on the values derived
\* from the sampled timestamp
known_slot_check(slot, day, t) ==
  IF day # slot.day_number
    THEN [is_active |-> FALSE, slot_info |-> <<slot>>, message |-> wrong_day_message(slot)]
    ELSE IF TimeLE(slot.start, t) /\ TimeLE(t, slot.end)
      THEN [is_active |-> TRUE, slot_info |-> <<slot>>, message |-> active_message(slot)]
      ELSE [is_active |-> FALSE, slot_info |-> <<slot>>, message |-> wrong_time_message(slot)]

(***************************************************************************)
(* check_form_status: the page fetch and its classification.               *)
(***************************************************************************)
\* sub in text (Python's substring test)
Contains(sub, text) ==
  \E i \in 0..(Len(text) - Len(sub)) : SubSeq(text, i + 1, i + Len(sub)) = sub

Words == {CLOSED_MESSAGE[1], CLOSED_MESSAGE[2], FORM_TITLE[1]}

RECURSIVE TextsOfLen(_)
TextsOfLen(n) ==
  IF n = 0 THEN {<<>>}
  ELSE {Append(t, w) : t \in TextsOfLen(n - 1), w \in Words}

Pages == UNION {TextsOfLen(n) : n \in 0..MaxPageLen}

\* requests.exceptions: Timeout is a subclass of RequestException
TimeoutErrors == {"ReadTimeout"}
RequestErrors == TimeoutErrors \cup {"ConnectionError", "HTTPError"}
OtherErrors == {"AttributeError"}
Errors == RequestErrors \cup OtherErrors

\* what requests.get / raise_for_status / BeautifulSoup hand back
FetchOutcomes ==
  {[kind |-> "text", text |-> t, exc |-> None] : t \in Pages}
    \cup {[kind |-> "raise", text |-> <<>>, exc |-> e] : e \in Errors}

\* classify_page with the title tested before the closed marker
classify_page_title_first(page_text) ==
  IF Contains(FORM_TITLE, page_text)
    THEN [is_open |-> True, status |-> "open",
          message |-> <<"Form '">> \o FORM_TITLE \o <<"' is OPEN and accepting responses.">>]
    ELSE IF Contains(CLOSED_MESSAGE, page_text)
      THEN [is_open |-> False, status |-> "closed",
            message |-> <<"Form '">> \o FORM_TITLE \o <<"' is NOT accepting responses (closed).">>]
      ELSE [is_open |-> None, status |-> "unknown",
            message |-> <<"Could not determine form status. The form page loaded but expected content was not found.">>]

\* form_check.py 53-74
classify_page(page_text) ==
  IF Contains(CLOSED_MESSAGE, page_text)
    THEN [is_open |-> False, status |-> "closed",
          message |-> <<"Form '">> \o FORM_TITLE \o <<"' is NOT accepting responses (closed).">>]
    ELSE IF Contains(FORM_TITLE, page_text)
      THEN [is_open |-> True, status |-> "open",
            message |-> <<"Form '">> \o FORM_TITLE \o <<"' is OPEN and accepting responses.">>]
      ELSE [is_open |-> None, status |-> "unknown",
            message |-> <<"Could not determine form status. The form page loaded but expected content was not found.">>]

\* handle_exception with the RequestException clause before the Timeout clause
handle_exception_request_first(e) ==
  IF e \in RequestErrors
    THEN [is_open |-> None, status |-> "error",
          message |-> <<"Failed to fetch the form page: ", e>>]
    ELSE IF e \in TimeoutErrors
      THEN [is_open |-> None, status |-> "error",
            message |-> <<"Request timed out. Please check your internet connection.">>]
      ELSE [is_open |-> None, status |-> "error",
            message |-> <<"An unexpected error occurred: ", e>>]

\* form_check.py 76-93: the except clauses, in their order
handle_exception(e) ==
  IF e \in TimeoutErrors
    THEN [is_open |-> None, status |-> "error",
          message |-> <<"Request timed out. Please check your internet connection.">>]
    ELSE IF e \in RequestErrors
      THEN [is_open |-> None, status |-> "error",
            message |-> <<"Failed to fetch the form page: ", e>>]
      ELSE [is_open |-> None, status |-> "error",
            message |-> <<"An unexpected error occurred: ", e>>]

\* form_check.py 35-93
check_form_status(outcome) ==
  IF outcome.kind = "text" THEN classify_page(outcome.text)
  ELSE handle_exception(outcome.exc)

(***************************************************************************)
(* check_form_for_slot, api_check_slot, get_status: returned dictionaries. *)
(***************************************************************************)
\* main.py 116-125
outside_slot_result(sid, check) ==
  [is_open |-> None, status |-> "outside_slot", message |-> check.message,
   slot_id |-> sid, slot_active |-> FALSE,
   form_url |-> FORM_URL, form_title |-> FORM_TITLE]

\* main.py 131-139
active_slot_result(sid, form) ==
  [is_open |-> form.is_open, status |-> form.status, message |-> form.message,
   slot_id |-> sid, slot_active |-> TRUE,
   form_url |-> FORM_URL, form_title |-> FORM_TITLE]

\* list(TIME_SLOTS.keys())
SlotKeys == <<"tue_930", "fri_1110", "tue_140", "tue_1110">>
SlotKeysText == "['tue_930', 'fri_1110', 'tue_140', 'tue_1110']"

\* app.py 25-31
invalid_slot_result ==
  [error |-> TRUE, message |-> <<"Invalid slot_id. Valid options: ", SlotKeysText>>,
   is_open |-> None, status |-> "error"]

\* app.py 173-179
missing_slot_result(n) ==
  [error |-> TRUE, message |-> <<"Missing slot parameter. Use ?slot=tue_930">>,
   available_slots |-> SlotKeys, current_time |-> n]

\* Python truthiness of a str-or-None argument
Falsy(x) == x = None \/ x = ""

(***************************************************************************)
(* State.  Every caller p runs one invocation at a time; pc[p] is its      *)
(* position in the code, the other per-caller variables are the locals of  *)
(* the functions on its call stack (Unset or NoInt when not assigned).     *)
(***************************************************************************)
VARIABLES
  clock,          \* the wall clock: index of the current instant
  check_stats,    \* app.py: the process-wide per-slot counters
  pc,             \* position of each caller
  entry,          \* the function each caller entered through
  slot_id,        \* the slot id argument
  now,            \* is_within_time_slot: now
  current_day,    \* is_within_time_slot: current_day
  current_time,   \* is_within_time_slot: current_time
  slot_check,     \* check_form_for_slot: slot_check
  fetched,        \* check_form_status: what the request handed back
  form_result,    \* check_form_for_slot: form_result
  result,         \* the dictionary returned to the caller
  checks_read,    \* api_check_slot: the value read by "checks += 1"
  fetches         \* number of requests.get calls of the invocation

vars == <<clock, check_stats, pc, entry, slot_id, now, current_day, current_time,
          slot_check, fetched, form_result, result, checks_read, fetches>>

locals == <<now, current_day, current_time, slot_check, fetched, form_result,
            result, checks_read, fetches>>

Callers == 1..NumCallers

\* slot ids a caller may pass: the registry's keys and one that is not a key
UnknownIds == {"sat_900"}
SlotArgs == SlotIds \cup UnknownIds

\* app.py 17
InitStats == [s \in SlotIds |-> [checks |-> 0, last_status |-> None]]

InitLocals ==
  /\ pc = [p \in Callers |-> "idle"]
  /\ entry = [p \in Callers |-> None]
  /\ slot_id = [p \in Callers |-> None]
  /\ now = [p \in Callers |-> Unset]
  /\ current_day = [p \in Callers |-> NoInt]
  /\ current_time = [p \in Callers |-> Unset]
  /\ slot_check = [p \in Callers |-> Unset]
  /\ fetched = [p \in Callers |-> Unset]
  /\ form_result = [p \in Callers |-> Unset]
  /\ result = [p \in Callers |-> Unset]
  /\ checks_read = [p \in Callers |-> NoInt]
  /\ fetches = [p \in Callers |-> 0]
  /\ check_stats = InitStats

Init ==
  /\ clock \in 1..NumInstants
  /\ InitLocals

(***************************************************************************)
(* The clock advances on its own, between any two steps of any caller.     *)
(***************************************************************************)
NextInstant(i) == (i % NumInstants) + 1

Tick(i) ==
  /\ i # clock
  /\ clock' = i
  /\ UNCHANGED <<check_stats, pc, entry, slot_id, locals>>

(***************************************************************************)
(* Entry points.                                                           *)
(***************************************************************************)
Enter(p, e, sid, at) ==
  /\ pc[p] = "idle"
  /\ pc' = [pc EXCEPT ![p] = at]
  /\ entry' = [entry EXCEPT ![p] = e]
  /\ slot_id' = [slot_id EXCEPT ![p] = sid]

\* main.py 163: check_form_for_slot(slot_id) called directly
call_check_form_for_slot(p, sid) ==
  /\ Enter(p, "check_form_for_slot", sid, "is_within_time_slot")
  /\ UNCHANGED <<clock, check_stats, locals>>

\* app.py 47: api_check_slot(slot_id) called by a handler thread
call_api_check_slot(p, sid) ==
  /\ sid \in SlotIds => check_stats[sid].checks < MaxChecks
  /\ Enter(p, "api_check_slot", sid, "api_check_slot")
  /\ UNCHANGED <<clock, check_stats, locals>>

\* app.py 170-182: GET /api/status
get_status(p, slot) ==
  /\ slot \in SlotIds => check_stats[slot].checks < MaxChecks
  /\ IF Falsy(slot)
       THEN /\ Enter(p, "get_status", slot, "done")
            /\ result' = [result EXCEPT
                 ![p] = missing_slot_result(datetime_now(Instant(clock)))]
       ELSE /\ Enter(p, "get_status", slot, "api_check_slot")
            /\ UNCHANGED result
  /\ UNCHANGED <<clock, check_stats, now, current_day, current_time, slot_check,
                 fetched, form_result, checks_read, fetches>>

\* app.py 25-33
api_check_slot(p) ==
  /\ pc[p] = "api_check_slot"
  /\ IF Falsy(slot_id[p]) \/ slot_id[p] \notin SlotIds
       THEN /\ result' = [result EXCEPT ![p] = invalid_slot_result]
            /\ pc' = [pc EXCEPT ![p] = "done"]
       ELSE /\ pc' = [pc EXCEPT ![p] = "is_within_time_slot"]
            /\ UNCHANGED result
  /\ UNCHANGED <<clock, check_stats, entry, slot_id, now, current_day, current_time,
                 slot_check, fetched, form_result, checks_read, fetches>>

(***************************************************************************)
(* is_within_time_slot, statement by statement.                            *)
(***************************************************************************)
\* main.py 62-69
is_within_time_slot(p) ==
  /\ pc[p] = "is_within_time_slot"
  /\ IF slot_id[p] \notin SlotIds
       THEN /\ slot_check' = [slot_check EXCEPT ![p] = unknown_slot_check(slot_id[p])]
            /\ pc' = [pc EXCEPT ![p] = "slot_checked"]
       ELSE /\ pc' = [pc EXCEPT ![p] = "now"]
            /\ UNCHANGED slot_check
  /\ UNCHANGED <<clock, check_stats, entry, slot_id, now, current_day, current_time,
                 fetched, form_result, result, checks_read, fetches>>

\* main.py 70
sample_now(p) ==
  /\ pc[p] = "now"
  /\ now' = [now EXCEPT ![p] = datetime_now(Instant(clock))]
  /\ pc' = [pc EXCEPT ![p] = "weekday"]
  /\ UNCHANGED <<clock, check_stats, entry, slot_id, current_day, current_time,
                 slot_check, fetched, form_result, result, checks_read, fetches>>

\* read_now with a second call of datetime.now for the time of day
read_now_again(p) ==
  /\ pc[p] = "weekday"
  /\ current_day' = [current_day EXCEPT ![p] = weekday(now[p])]
  /\ current_time' = [current_time EXCEPT ![p] = time_of(datetime_now(Instant(clock)))]
  /\ pc' = [pc EXCEPT ![p] = "compare"]
  /\ UNCHANGED <<clock, check_stats, entry, slot_id, now,
                 slot_check, fetched, form_result, result, checks_read, fetches>>

\* main.py 71-72
read_now(p) ==
  /\ pc[p] = "weekday"
  /\ current_day' = [current_day EXCEPT ![p] = weekday(now[p])]
  /\ current_time' = [current_time EXCEPT ![p] = time_of(now[p])]
  /\ pc' = [pc EXCEPT ![p] = "compare"]
  /\ UNCHANGED <<clock, check_stats, entry, slot_id, now,
                 slot_check, fetched, form_result, result, checks_read, fetches>>

\* main.py 74-94
compare_slot(p) ==
  /\ pc[p] = "compare"
  /\ slot_check' = [slot_check EXCEPT
       ![p] = known_slot_check(TIME_SLOTS[slot_id[p]], current_day[p], current_time[p])]
  /\ pc' = [pc EXCEPT ![p] = "slot_checked"]
  /\ UNCHANGED <<clock, check_stats, entry, slot_id, now, current_day, current_time,
                 fetched, form_result, result, checks_read, fetches>>

(***************************************************************************)
(* check_form_for_slot after is_within_time_slot has returned.             *)
(***************************************************************************)
\* where check_form_for_slot returns to
AfterCheck(p) == IF entry[p] = "check_form_for_slot" THEN "done" ELSE "stats_read"

\* gate without the is_active test: the request is always made
gate_always_fetches(p) ==
  /\ pc[p] = "slot_checked"
  /\ fetches' = [fetches EXCEPT ![p] = @ + 1]
  /\ pc' = [pc EXCEPT ![p] = "requests_get"]
  /\ UNCHANGED <<clock, check_stats, entry, slot_id, now, current_day, current_time,
                 slot_check, fetched, form_result, result, checks_read>>

\* main.py 116-129, form_check.py 44: return outside_slot or start the request
gate(p) ==
  /\ pc[p] = "slot_checked"
  /\ IF ~slot_check[p].is_active
       THEN /\ result' = [result EXCEPT ![p] = outside_slot_result(slot_id[p], slot_check[p])]
            /\ pc' = [pc EXCEPT ![p] = AfterCheck(p)]
            /\ UNCHANGED fetches
       ELSE /\ fetches' = [fetches EXCEPT ![p] = @ + 1]
            /\ pc' = [pc EXCEPT ![p] = "requests_get"]
            /\ UNCHANGED result
  /\ UNCHANGED <<clock, check_stats, entry, slot_id, now, current_day, current_time,
                 slot_check, fetched, form_result, checks_read>>

\* fetch_return with one retry of a failed request
fetch_return_retry(p, outcome) ==
  /\ pc[p] = "requests_get"
  /\ IF outcome.kind = "raise" /\ fetches[p] < 2
       THEN /\ fetches' = [fetches EXCEPT ![p] = @ + 1]
            /\ UNCHANGED <<pc, fetched, form_result>>
       ELSE /\ fetched' = [fetched EXCEPT ![p] = outcome]
            /\ form_result' = [form_result EXCEPT ![p] = check_form_status(outcome)]
            /\ pc' = [pc EXCEPT ![p] = "form_checked"]
            /\ UNCHANGED fetches
  /\ UNCHANGED <<clock, check_stats, entry, slot_id, now, current_day, current_time,
                 slot_check, result, checks_read>>

\* form_check.py 44-93: the request returns a page or raises
fetch_return(p, outcome) ==
  /\ pc[p] = "requests_get"
  /\ fetched' = [fetched EXCEPT ![p] = outcome]
  /\ form_result' = [form_result EXCEPT ![p] = check_form_status(outcome)]
  /\ pc' = [pc EXCEPT ![p] = "form_checked"]
  /\ UNCHANGED <<clock, check_stats, entry, slot_id, now, current_day, current_time,
                 slot_check, result, checks_read, fetches>>

\* main.py 131-139
return_form_result(p) ==
  /\ pc[p] = "form_checked"
  /\ result' = [result EXCEPT ![p] = active_slot_result(slot_id[p], form_result[p])]
  /\ pc' = [pc EXCEPT ![p] = AfterCheck(p)]
  /\ UNCHANGED <<clock, check_stats, entry, slot_id, now, current_day, current_time,
                 slot_check, fetched, form_result, checks_read, fetches>>

(***************************************************************************)
(* api_check_slot after check_form_for_slot has returned: the counters.    *)
(* "checks += 1" is a read followed by a write.                            *)
(***************************************************************************)
\* app.py 36, the read
stats_read(p) ==
  /\ pc[p] = "stats_read"
  /\ checks_read' = [checks_read EXCEPT ![p] = check_stats[slot_id[p]].checks]
  /\ pc' = [pc EXCEPT ![p] = "stats_write"]
  /\ UNCHANGED <<clock, check_stats, entry, slot_id, now, current_day, current_time,
                 slot_check, fetched, form_result, result, fetches>>

\* app.py 36, the write
stats_write(p) ==
  /\ pc[p] = "stats_write"
  /\ check_stats' = [check_stats EXCEPT ![slot_id[p]].checks = checks_read[p] + 1]
  /\ pc' = [pc EXCEPT ![p] = "stats_last"]
  /\ UNCHANGED <<clock, entry, slot_id, locals>>

\* stats_last returning the status kept in check_stats instead of its own
stats_last_from_stats(p) ==
  /\ pc[p] = "stats_last"
  /\ check_stats' = [check_stats EXCEPT ![slot_id[p]].last_status = result[p].status]
  /\ result' = [result EXCEPT ![p].status = check_stats[slot_id[p]].last_status]
  /\ pc' = [pc EXCEPT ![p] = "done"]
  /\ UNCHANGED <<clock, entry, slot_id, now, current_day, current_time, slot_check,
                 fetched, form_result, checks_read, fetches>>

\* app.py 37-39
stats_last(p) ==
  /\ pc[p] = "stats_last"
  /\ check_stats' = [check_stats EXCEPT ![slot_id[p]].last_status = result[p].status]
  /\ pc' = [pc EXCEPT ![p] = "done"]
  /\ UNCHANGED <<clock, entry, slot_id, locals>>

\* the caller takes the returned dictionary; the frames are gone
finish(p) ==
  /\ pc[p] = "done"
  /\ pc' = [pc EXCEPT ![p] = "idle"]
  /\ entry' = [entry EXCEPT ![p] = None]
  /\ slot_id' = [slot_id EXCEPT ![p] = None]
  /\ now' = [now EXCEPT ![p] = Unset]
  /\ current_day' = [current_day EXCEPT ![p] = NoInt]
  /\ current_time' = [current_time EXCEPT ![p] = Unset]
  /\ slot_check' = [slot_check EXCEPT ![p] = Unset]
  /\ fetched' = [fetched EXCEPT ![p] = Unset]
  /\ form_result' = [form_result EXCEPT ![p] = Unset]
  /\ result' = [result EXCEPT ![p] = Unset]
  /\ checks_read' = [checks_read EXCEPT ![p] = NoInt]
  /\ fetches' = [fetches EXCEPT ![p] = 0]
  /\ UNCHANGED <<clock, check_stats>>

\* app.py 76-86: the "active slots right now" panel
get_current_info(p) ==
  /\ Enter(p, "get_current_info", None, "done")
  /\ LET n == datetime_now(Instant(clock))
     IN  /\ now' = [now EXCEPT ![p] = n]
         /\ result' = [result EXCEPT ![p] =
              [active_slots |->
                 {s \in SlotIds : /\ weekday(n) = TIME_SLOTS[s].day_number
                                  /\ TimeLE(TIME_SLOTS[s].start, time_of(n))
                                  /\ TimeLE(time_of(n), TIME_SLOTS[s].end)}]]
  /\ UNCHANGED <<clock, check_stats, current_day, current_time, slot_check,
                 fetched, form_result, checks_read, fetches>>

\* the steps of one caller inside the slot check
CheckStep(p, outcomes) ==
  \/ is_within_time_slot(p)
  \/ sample_now(p)
  \/ read_now(p)
  \/ compare_slot(p)
  \/ gate(p)
  \/ \E o \in outcomes : fetch_return(p, o)
  \/ return_form_result(p)
  \/ finish(p)

\* the steps of one caller in api_check_slot around the slot check
ApiStep(p) ==
  \/ api_check_slot(p)
  \/ stats_read(p)
  \/ stats_write(p)
  \/ stats_last(p)

(***************************************************************************)
(* Spec: one caller of check_form_for_slot, the clock running through      *)
(* every instant of the week.                                              *)
(***************************************************************************)
Next ==
  \/ Tick(NextInstant(clock))
  \/ \E sid \in SlotArgs : call_check_form_for_slot(1, sid)
  \/ get_current_info(1)
  \/ CheckStep(1, FetchOutcomes)

Spec == Init /\ [][Next]_vars

(***************************************************************************)
(* SpecApi: NumCallers threads calling api_check_slot, their steps         *)
(* interleaved in every order.  The clock moves among a few instants, the  *)
(* callers use some of the slots and the request has some of its outcomes. *)
(***************************************************************************)
IndexOf(day, t) ==
  CHOOSE i \in 1..NumInstants :
    LocalInstantSeq[i] = [day |-> day, sec |-> t.sec, us |-> t.us]

ApiInstants ==
  { IndexOf(1, time(11, 5)),      \* Tuesday 11:05: tue_930 and tue_1110 active
    IndexOf(1, [sec |-> TIME_SLOTS.tue_930.end.sec, us |-> 1]),
                                  \* Tuesday 11:15:00.000001: tue_930 just over
    IndexOf(0, time(0, 0)) }      \* Monday 00:00: no slot active

ApiSlotArgs == {"tue_930", "tue_1110"} \cup UnknownIds
ApiQueryArgs == {None, ""} \cup ApiSlotArgs

ApiOutcomes ==
  { [kind |-> "text", text |-> FORM_TITLE, exc |-> None],
    [kind |-> "text", text |-> FORM_TITLE \o CLOSED_MESSAGE, exc |-> None],
    [kind |-> "raise", text |-> <<>>, exc |-> "ReadTimeout"] }

InitApi ==
  /\ clock \in ApiInstants
  /\ InitLocals

NextApi ==
  \/ \E i \in ApiInstants : Tick(i)
  \/ \E p \in Callers :
       \/ \E sid \in ApiSlotArgs : call_api_check_slot(p, sid)
       \/ ApiStep(p)
       \/ CheckStep(p, ApiOutcomes)

SpecApi == InitApi /\ [][NextApi]_vars

(***************************************************************************)
(* FairSpec: one caller, through check_form_for_slot, api_check_slot or   *)
(* GET /api/status, that is never suspended for ever: each of its steps,   *)
(* the return of the request included (requests.get has timeout=10), is    *)
(* eventually taken.                                                       *)
(***************************************************************************)
\* one outcome of each kind: an open, a closed and an unrecognised page,
\* and every exception
FlowOutcomes ==
  { [kind |-> "text", text |-> FORM_TITLE, exc |-> None],
    [kind |-> "text", text |-> FORM_TITLE \o CLOSED_MESSAGE, exc |-> None],
    [kind |-> "text", text |-> <<>>, exc |-> None] }
    \cup {[kind |-> "raise", text |-> <<>>, exc |-> e] : e \in Errors}

NextFlow ==
  \/ \E i \in ApiInstants : Tick(i)
  \/ \E sid \in ApiSlotArgs : call_check_form_for_slot(1, sid)
  \/ \E sid \in ApiSlotArgs : call_api_check_slot(1, sid)
  \/ \E q \in ApiQueryArgs : get_status(1, q)
  \/ ApiStep(1)
  \/ CheckStep(1, FlowOutcomes)

FairSpec ==
  /\ InitApi
  /\ [][NextFlow]_vars
  /\ WF_vars(ApiStep(1) \/ CheckStep(1, FlowOutcomes))

(***************************************************************************)
(* Vocabulary of the properties.                                           *)
(***************************************************************************)
\* the activity rule: right weekday, and start <= time of day <= end
ActivityRule(slot, n) ==
  /\ n.day = slot.day_number
  /\ ~(n.sec < slot.start.sec \/ (n.sec = slot.start.sec /\ n.us < slot.start.us))
  /\ ~(n.sec > slot.end.sec \/ (n.sec = slot.end.sec /\ n.us > slot.end.us))

Known(p) == slot_id[p] \in SlotIds

\* positions at which is_within_time_slot has returned
Checked == {"slot_checked", "requests_get", "form_checked",
            "stats_read", "stats_write", "stats_last", "done"}
\* positions at which check_form_status has returned
Fetched == {"form_checked", "stats_read", "stats_write", "stats_last", "done"}

\* the caller is inside, or back from, a slot status check
InCheck(p) == entry[p] \in {"check_form_for_slot", "api_check_slot", "get_status"}

DayNames == <<"Monday", "Tuesday", "Wednesday", "Thursday", "Friday", "Saturday", "Sunday">>

Fragments(m) == {m[i] : i \in 1..Len(m)}

IsWrongDayMessage(m) == Len(m) > 0 /\ m[1] = "Today is not "
IsWrongTimeMessage(m) == Len(m) > 0 /\ m[1] = "Current time is outside slot window ("
IsUnknownSlotMessage(m) == Len(m) > 0 /\ m[1] = "Unknown slot ID: "

StatusFields ==
  {"is_open", "status", "message", "slot_id", "slot_active", "form_url", "form_title"}
Statuses == {"open", "closed", "unknown", "error", "outside_slot"}

(***************************************************************************)
(* C1.  For every slot id that is not a key of TIME_SLOTS, a status check  *)
(* (check_form_for_slot, api_check_slot) returns status 'error' with       *)
(* slot_active = false and performs no fetch.                              *)
(***************************************************************************)
C1_UnknownSlotIsError ==
  \A p \in Callers :
    (pc[p] = "done" /\ InCheck(p) /\ ~Falsy(slot_id[p]) /\ ~Known(p)) =>
      /\ result[p].status = "error"
      /\ "slot_active" \in DOMAIN result[p]
      /\ result[p].slot_active = FALSE
      /\ fetches[p] = 0

(***************************************************************************)
(* C2.  Gating: for a known slot the form page is fetched if and only if   *)
(* the slot is active at the sampled timestamp.  Inactive: no fetch,       *)
(* status 'outside_slot', is_open null, slot_active false and the message  *)
(* returned by is_within_time_slot.  Active: exactly one fetch and         *)
(* slot_active true.                                                       *)
(***************************************************************************)
C2_Gating ==
  \A p \in Callers :
    (InCheck(p) /\ Known(p)) =>
      /\ pc[p] \notin Checked \ {"slot_checked"} => fetches[p] = 0
      /\ pc[p] \in Checked \ {"slot_checked"} =>
           fetches[p] = IF ActivityRule(TIME_SLOTS[slot_id[p]], now[p]) THEN 1 ELSE 0
      /\ pc[p] = "done" =>
           IF ActivityRule(TIME_SLOTS[slot_id[p]], now[p])
             THEN result[p].slot_active = TRUE
             ELSE /\ result[p].status = "outside_slot"
                  /\ result[p].is_open = None
                  /\ result[p].slot_active = FALSE
                  /\ result[p].message = slot_check[p].message

C2_Witness ==
  \E p \in Callers :
    /\ pc[p] = "done" /\ InCheck(p) /\ Known(p)
    /\ now[p].day = TIME_SLOTS[slot_id[p]].day_number
    /\ result[p].status = "outside_slot"
    /\ fetches[p] = 0

(***************************************************************************)
(* C3.  Activity rule: is_within_time_slot reports is_active = true        *)
(* exactly when the sampled weekday is the slot's day_number and           *)
(* start <= time of day <= end, both bounds inclusive.                     *)
(***************************************************************************)
C3_ActivityRule ==
  \A p \in Callers :
    (InCheck(p) /\ Known(p) /\ pc[p] \in Checked) =>
      slot_check[p].is_active = ActivityRule(TIME_SLOTS[slot_id[p]], now[p])

C3_Witness ==
  \E p \in Callers :
    /\ InCheck(p) /\ Known(p) /\ pc[p] = "slot_checked"
    /\ now[p].day = TIME_SLOTS[slot_id[p]].day_number
    /\ time_of(now[p]) = TIME_SLOTS[slot_id[p]].end
    /\ slot_check[p].is_active

C6_StatusResponseShape ==
  \A p \in Callers :
    (pc[p] = "done" /\ entry[p] = "get_status") =>
      IF Falsy(slot_id[p])
        THEN /\ {"available_slots", "current_time"} \subseteq DOMAIN result[p]
             /\ DOMAIN result[p] # StatusFields
        ELSE /\ StatusFields \subseteq DOMAIN result[p]
             /\ result[p].status \in Statuses
             /\ result[p].is_open \in {True, False, None}

(***************************************************************************)
(* C7.  A known slot that is inactive is reported with two different       *)
(* reasons: on another weekday the wrong-day message, which names the      *)
(* slot's required day; on the right weekday outside the window the        *)
(* wrong-time message.  The two are never the same message and both        *)
(* differ from the unknown-slot message.                                   *)
(***************************************************************************)
C7_InactiveReasons ==
  \A p \in Callers :
    (InCheck(p) /\ pc[p] \in Checked /\ (Known(p) \/ entry[p] = "check_form_for_slot")) =>
      LET m == slot_check[p].message
      IN  IF ~Known(p)
            THEN /\ ~slot_check[p].is_active
                 /\ IsUnknownSlotMessage(m)
                 /\ ~IsWrongDayMessage(m) /\ ~IsWrongTimeMessage(m)
            ELSE LET slot == TIME_SLOTS[slot_id[p]]
                 IN  /\ now[p].day # slot.day_number =>
                           /\ ~slot_check[p].is_active
                           /\ IsWrongDayMessage(m)
                           /\ DayNames[slot.day_number + 1] \in Fragments(m)
                           /\ ~IsWrongTimeMessage(m) /\ ~IsUnknownSlotMessage(m)
                     /\ (now[p].day = slot.day_number /\ ~ActivityRule(slot, now[p])) =>
                           /\ ~slot_check[p].is_active
                           /\ IsWrongTimeMessage(m)
                           /\ ~IsWrongDayMessage(m) /\ ~IsUnknownSlotMessage(m)
                     /\ \A s \in SlotIds :
                           /\ m = wrong_day_message(TIME_SLOTS[s]) => now[p].day # slot.day_number
                           /\ m = wrong_time_message(TIME_SLOTS[s]) => now[p].day = slot.day_number

C7_Witness ==
  \E p \in Callers :
    /\ InCheck(p) /\ Known(p) /\ pc[p] = "slot_checked"
    /\ now[p].day = TIME_SLOTS[slot_id[p]].day_number
    /\ ~slot_check[p].is_active
    /\ IsWrongTimeMessage(slot_check[p].message)

(***************************************************************************)
(* C8.  One invocation moves only along START -> {UNKNOWN_SLOT,            *)
(* OUTSIDE_WINDOW, FETCHING} and FETCHING -> {OPEN, CLOSED, UNKNOWN,       *)
(* ERROR}, enters FETCHING at most once (no retry) and, the request        *)
(* returning or timing out, ends in exactly one terminal outcome.          *)
(***************************************************************************)
\* a request without a slot parameter invokes no status check
NoCheck(p) == pc[p] = "idle" \/ (entry[p] = "get_status" /\ Falsy(slot_id[p]))

Phase(p) ==
  IF NoCheck(p) THEN "IDLE"
  ELSE IF pc[p] \in {"api_check_slot", "is_within_time_slot", "now", "weekday", "compare"}
    THEN "START"
  ELSE IF pc[p] = "requests_get" THEN "FETCHING"
  ELSE IF fetches[p] > 0
    THEN (CASE form_result[p].status = "open" -> "OPEN"
            [] form_result[p].status = "closed" -> "CLOSED"
            [] form_result[p].status = "unknown" -> "UNKNOWN"
            [] form_result[p].status = "error" -> "ERROR")
  ELSE IF ~Known(p) THEN "UNKNOWN_SLOT"
  ELSE IF pc[p] = "slot_checked" /\ slot_check[p].is_active THEN "START"
  ELSE "OUTSIDE_WINDOW"

Terminal == {"UNKNOWN_SLOT", "OUTSIDE_WINDOW", "OPEN", "CLOSED", "UNKNOWN", "ERROR"}

PhaseMoves ==
  ({"IDLE"} \X {"START"})
    \cup ({"START"} \X {"UNKNOWN_SLOT", "OUTSIDE_WINDOW", "FETCHING"})
    \cup ({"FETCHING"} \X {"OPEN", "CLOSED", "UNKNOWN", "ERROR"})
    \cup (Terminal \X {"IDLE"})

PhaseStep ==
  \A p \in Callers :
    /\ Phase(p)' = Phase(p) \/ <<Phase(p), Phase(p)'>> \in PhaseMoves
    /\ fetches'[p] <= 1
    /\ (Phase(p) # "FETCHING" /\ Phase(p)' = "FETCHING") => fetches[p] = 0
    /\ (pc'[p] = "done" /\ ~NoCheck(p)') => Phase(p)' \in Terminal

C8_StateMachine ==
  /\ [][PhaseStep]_vars
  /\ \A p \in {1} : (pc[p] # "idle") ~> (pc[p] = "done")

C8_Witness ==
  \E p \in Callers :
    /\ pc[p] = "done" /\ fetches[p] = 1 /\ Phase(p) = "ERROR"

(***************************************************************************)
(* C9.  Concurrent status checks are independent: under every              *)
(* interleaving, lost updates of check_stats included, each call returns   *)
(* what it would return alone with the same timestamp and the same fetch   *)
(* result; the result never depends on check_stats.                        *)
(***************************************************************************)
Alone(sid, n, o) ==
  IF Falsy(sid) \/ sid \notin SlotIds THEN invalid_slot_result
  ELSE LET check == known_slot_check(TIME_SLOTS[sid], weekday(n), time_of(n))
       IN  IF check.is_active THEN active_slot_result(sid, check_form_status(o))
           ELSE outside_slot_result(sid, check)

C9_Independent ==
  \A p \in Callers :
    (pc[p] = "done" /\ entry[p] \in {"api_check_slot", "get_status"}
        /\ ~Falsy(slot_id[p])) =>
      result[p] = Alone(slot_id[p], now[p], fetched[p])

C9_Witness ==
  \E p \in Callers, q \in Callers :
    /\ p # q
    /\ pc[p] = "done" /\ pc[q] = "done"
    /\ Known(p) /\ slot_id[q] = slot_id[p]
    /\ check_stats[slot_id[p]].checks = 1
    /\ result[p].status # result[q].status

(***************************************************************************)
(* C10.  Single timestamp sample: the weekday and the time of day that     *)
(* one evaluation compares come from the same sampled timestamp, a time    *)
(* in the +05:30 offset, however the clock advances between the steps;     *)
(* is_active is the activity rule at that one instant.                     *)
(***************************************************************************)
C10_SingleSample ==
  \A p \in Callers :
    /\ (InCheck(p) /\ Known(p) /\ pc[p] \in {"weekday", "compare"} \cup Checked) =>
         now[p] \in LocalInstants
    /\ (InCheck(p) /\ Known(p) /\ pc[p] \in {"compare"} \cup Checked) =>
         /\ current_day[p] = now[p].day
         /\ current_time[p] = [sec |-> now[p].sec, us |-> now[p].us]
    /\ (InCheck(p) /\ Known(p) /\ pc[p] \in Checked) =>
         slot_check[p].is_active =
           ActivityRule(TIME_SLOTS[slot_id[p]],
                        [day |-> current_day[p], sec |-> current_time[p].sec,
                         us |-> current_time[p].us])
    /\ (entry[p] = "get_current_info" /\ pc[p] = "done") =>
         result[p].active_slots = {s \in SlotIds : ActivityRule(TIME_SLOTS[s], now[p])}

C10_Witness ==
  \E p \in Callers :
    /\ InCheck(p) /\ Known(p) /\ pc[p] = "slot_checked"
    /\ datetime_now(Instant(clock)).day # now[p].day
    /\ slot_check[p].is_active

====
